---- MODULE Spec2Model ----
(***************************************************************************)
(* A model of git-util-native (src/src/lib.rs): the parsers that turn the  *)
(* text printed by the git command line into typed records.                *)
(*                                                                         *)
(* Text is modelled as a sequence of tokens.  A token is a record          *)
(* [k |-> kind, v |-> value]: the kind names a piece of text the parsers   *)
(* tell apart (a run of digits, a separator, a clause word), the value is  *)
(* the number a run of digits spells.                                      *)
(***************************************************************************)
EXTENDS Integers, Sequences, FiniteSets, TLC

\* ------------------------------------------------------------------ bounds
\* largest number spelled in a shortstat line
MaxNum == 2
\* longest free-form (unstructured) shortstat text, in tokens
MaxFreeToks == 2
\* most commit records read from one log
MaxCommits == 3
\* most placeholders in one get_commit_log_format request
MaxPlaceholders == 2
\* longest stdout of git log, in tokens
MaxLogToks == 4
\* most commits git log renders in a round trip
MaxRecords == 2
\* most lines of git ls-tree handed to file_info_list_to_tree
MaxLines == 3
\* how far around the scan limit of is_binary lengths and offsets range
MaxSlack == 2
\* most lines of git remote -v read by get_remote
MaxRemoteLines == 3
\* most branches handed to get_branchs_create_info
MaxBranches == 3

\* --------------------------------------------------------------- constants
\* i32::MAX, the largest value parse::<i32>() accepts
I32Max == 2147483647
\* line 1101: the number of leading bytes is_binary looks at
ScanLimit == 8000
\* seconds in a calendar day (the unit of %at is the second)
SecsPerDay == 24 * 60 * 60

VARIABLES
    \* log_shortstat_parse and its direct callers
    status,         \* the text handed to the parser
    sres,           \* what log_shortstat_parse returned for it
    scall,          \* outcome of the caller that ran last
    spc,            \* position of the shortstat scenario
    \* get_contribute_stat
    commits,        \* the commit records of stdout consumed so far
    authors_stat,   \* HashMap<String, AuthorStatDailyContribute>
    total_stat,     \* StatDailyContribute of the whole branch
    cpc,            \* position of get_contribute_stat
    \* get_commit_log_format
    placeholders,   \* the requested placeholders
    values,         \* the field values git log rendered, commit by commit
    stdout,         \* what git log printed
    exit_success,   \* whether git log exited with status 0
    records,        \* stdout split into records
    res,            \* the maps pushed so far
    lpc,            \* position of get_commit_log_format
    \* file_info_list_to_tree
    file_info_list, \* the lines of git ls-tree consumed so far
    file_list,      \* Vec<RepoFileInfo>, the tree built from them
    tpc,            \* position of file_info_list_to_tree
    \* get_commit_file_status and get_files_status_between_commit
    status_line,    \* one line of git's name-status listing
    file_status,    \* what the parser made of it
    fpc,            \* position of the status parser
    \* is_binary
    content,        \* the content handed to is_binary
    binary,         \* what is_binary returned for it
    bpc,            \* position of is_binary
    \* get_remote
    remote_lines,   \* the lines of git remote -v consumed so far
    remotes,        \* HashMap<String, Remote>
    remotes_again,  \* what a second call on the same output returned
    rpc,            \* position of get_remote
    \* get_branchs_create_info
    branchs,        \* the branches asked for
    subcalls,       \* the branches get_branch_create_info was called for
    infos,          \* the infos pushed so far
    ret,            \* what get_branchs_create_info returned
    gpc             \* position of get_branchs_create_info

shortVars == <<status, sres, scall, spc>>
contribVars == <<commits, authors_stat, total_stat, cpc>>
logVars == <<placeholders, values, stdout, exit_success, records, res, lpc>>
parserVars == <<shortVars, contribVars, logVars>>
treeVars == <<file_info_list, file_list, tpc>>
statusVars == <<status_line, file_status, fpc>>
binVars == <<content, binary, bpc>>
remoteVars == <<remote_lines, remotes, remotes_again, rpc>>
branchVars == <<branchs, subcalls, infos, ret, gpc>>
laterVars == <<treeVars, statusVars, binVars, remoteVars, branchVars>>
vars == <<status, sres, scall, spc, commits, authors_stat, total_stat, cpc,
          placeholders, values, stdout, exit_success, records, res, lpc,
          laterVars>>

\* ------------------------------------------------------------------ tokens
Num(n) == [k |-> "num", v |-> n]
W(s) == [k |-> s, v |-> 0]

\* " file changed" / " files changed"
FileChangedKinds == {" file changed", " files changed"}
\* " insertion(+)" / " insertions(+)"
InsertionKinds == {" insertion(+)", " insertions(+)"}
\* " deletion(-)" / " deletions(-)"
DeletionKinds == {" deletion(-)", " deletions(-)"}
\* line 14: PARAM_INTERVAL, line 15: COMMIT_INETRVAL
PARAM_INTERVAL == W("<<PARAM_INTERVAL>>")
COMMIT_INETRVAL == W("<<COMMIT_INETRVAL>>")
Newline == W("\n")
Comma == W(", ")
Junk == W("no match text")
Blank == W(" ")
Tab == W("\t")

\* ------------------------------------------------------ results of a call
Ok3(c, i, d) == [tag |-> "Ok", changes |-> c, insertions |-> i, deletions |-> d]
Err3 == [tag |-> "Err", changes |-> 0, insertions |-> 0, deletions |-> 0]
Panic3 == [tag |-> "Panic", changes |-> 0, insertions |-> 0, deletions |-> 0]

\* -------------------------------------------------- log_shortstat_parse
\* the mandatory part of the regex matches at token p
MatchesAt(s, p) ==
    /\ p + 1 <= Len(s)
    /\ s[p].k = "num"
    /\ s[p + 1].k \in FileChangedKinds

\* an optional group ", <digits><word>" matches at token q
\* variant: the clause word is not told apart
GroupAtAnyWord(s, q, words) ==
    /\ q + 2 <= Len(s)
    /\ s[q] = Comma
    /\ s[q + 1].k = "num"
    /\ s[q + 2].k \in InsertionKinds \cup DeletionKinds

GroupAt(s, q, words) ==
    /\ q + 2 <= Len(s)
    /\ s[q] = Comma
    /\ s[q + 1].k = "num"
    /\ s[q + 2].k \in words

\* the leftmost position where the regex matches, 0 when there is none
FirstMatch(s) ==
    IF \E p \in 1..Len(s) : MatchesAt(s, p)
    THEN CHOOSE p \in 1..Len(s) :
             /\ MatchesAt(s, p)
             /\ \A r \in 1..(p - 1) : ~MatchesAt(s, r)
    ELSE 0

\* str::parse::<i32>().unwrap() of a run of digits
ParseOverflows(n) == n > I32Max

\* variant: the deletion group is looked for only after an insertion group
log_shortstat_parse_nested(s) ==
    LET p == FirstMatch(s) IN
    IF p = 0 THEN Err3
    ELSE
        LET hasIns == GroupAt(s, p + 2, InsertionKinds)
            hasDel == hasIns /\ GroupAt(s, p + 5, DeletionKinds)
        IN  Ok3(s[p].v,
                IF hasIns THEN s[p + 3].v ELSE 0,
                IF hasDel THEN s[p + 6].v ELSE 0)

log_shortstat_parse(s) ==
    LET p == FirstMatch(s) IN
    IF p = 0 THEN Err3
    ELSE
        LET hasIns == GroupAt(s, p + 2, InsertionKinds)
            q == IF hasIns THEN p + 5 ELSE p + 2
            hasDel == GroupAt(s, q, DeletionKinds)
            changes == s[p].v
            insertions == IF hasIns THEN s[p + 3].v ELSE 0
            deletions == IF hasDel THEN s[q + 1].v ELSE 0
        IN  IF \/ ParseOverflows(changes)
               \/ ParseOverflows(insertions)
               \/ ParseOverflows(deletions)
            THEN Panic3
            ELSE Ok3(changes, insertions, deletions)

\* ------------------------------------------------ texts handed to the parser
\* the clause word git prints for a count: singular for 1, plural otherwise
FileChangedWord(n) == IF n = 1 THEN W(" file changed") ELSE W(" files changed")
InsertionWord(n) == IF n = 1 THEN W(" insertion(+)") ELSE W(" insertions(+)")
DeletionWord(n) == IF n = 1 THEN W(" deletion(-)") ELSE W(" deletions(-)")

\* a count that may be absent from the line: -1 stands for "no such clause"
Absent == 0 - 1
OptCounts == {Absent} \cup (0..MaxNum)

InsClause(m) == IF m = Absent THEN <<>> ELSE <<Comma, Num(m), InsertionWord(m)>>
DelClause(k) == IF k = Absent THEN <<>> ELSE <<Comma, Num(k), DeletionWord(k)>>

\* "N file(s) changed[, M insertion(s)(+)][, K deletion(s)(-)]"
ShortstatLine(n, m, k) ==
    <<Num(n), FileChangedWord(n)>> \o InsClause(m) \o DelClause(k)

\* the same line with the deletion clause written before the insertion clause
SwappedLine(n, m, k) ==
    <<Num(n), FileChangedWord(n)>> \o DelClause(k) \o InsClause(m)

\* what may precede the summary on the line: nothing, the leading blank git
\* prints, or other text
Prefixes == {<<>>, <<Blank>>, <<Junk>>}

WellFormedLines ==
    {pre \o ShortstatLine(n, m, k) :
        pre \in Prefixes, n \in 0..MaxNum, m \in OptCounts, k \in OptCounts}

SwappedLines ==
    {pre \o SwappedLine(n, m, k) :
        pre \in Prefixes, n \in 0..MaxNum, m \in 0..MaxNum, k \in 0..MaxNum}

FreeAlphabet ==
    {Num(1), W(" files changed"), Comma, W(" insertions(+)"), W(" deletions(-)"), Junk}

RECURSIVE SeqsUpTo(_, _)
SeqsUpTo(S, n) ==
    IF n = 0 THEN {<<>>}
    ELSE LET shorter == SeqsUpTo(S, n - 1)
         IN  shorter \cup {Append(t, x) : t \in shorter, x \in S}

FreeTexts == SeqsUpTo(FreeAlphabet, MaxFreeToks)

ShortstatTexts == WellFormedLines \cup SwappedLines \cup FreeTexts

\* ------------------------------------------------------ get_contribute_stat
EmptyStat ==
    [commit_count |-> 0, data_list |-> <<>>, insertion |-> <<>>,
     deletions |-> <<>>, change_files |-> <<>>]

\* lines 572-574 and 607-609 index the three count arrays at the last
\* position of data_list; an index past the end of a Vec panics
OverwriteInBounds(stat) ==
    LET len == Len(stat.data_list) IN
    /\ len >= 1
    /\ len <= Len(stat.change_files)
    /\ len <= Len(stat.insertion)
    /\ len <= Len(stat.deletions)

\* variant: the commit's counts are added to the last entry
OverwriteSum(stat, changes, insertions, deletions) ==
    LET len == Len(stat.data_list) IN
    [stat EXCEPT !.change_files[len] = @ + changes,
                 !.insertion[len] = @ + insertions,
                 !.deletions[len] = @ + deletions]

\* lines 572-574 and 607-609: the last entry takes the commit's counts
OverwriteLastDay(stat, changes, insertions, deletions) ==
    LET len == Len(stat.data_list) IN
    [stat EXCEPT !.change_files[len] = changes,
                 !.insertion[len] = insertions,
                 !.deletions[len] = deletions]

\* lines 577-580 and 597-600: a new entry in each of the four arrays
\* variant: the push to insertion is missing
PushNoInsertion(stat, date, changes, insertions, deletions) ==
    [stat EXCEPT !.data_list = Append(@, date),
                 !.deletions = Append(@, deletions),
                 !.change_files = Append(@, changes)]

PushDay(stat, date, changes, insertions, deletions) ==
    [stat EXCEPT !.data_list = Append(@, date),
                 !.insertion = Append(@, insertions),
                 !.deletions = Append(@, deletions),
                 !.change_files = Append(@, changes)]

\* lines 569-574: data_list[len - 1] and the writes at len - 1
KnownAuthorPanics(author, date) ==
    LET len == Len(author.stat.data_list) IN
    \/ len = 0
    \/ /\ author.stat.data_list[len] = date
       /\ ~OverwriteInBounds(author.stat)

\* lines 605-609: the same accesses on the total
TotalPanics(total, date) ==
    LET len == Len(total.data_list) IN
    /\ len > 0
    /\ total.data_list[len] = date
    /\ ~OverwriteInBounds(total)

\* lines 567-581: the author is already in the map
\* variant: commit_count is not incremented for a known author
AuthorNoCount(author, date, changes, insertions, deletions) ==
    LET len == Len(author.stat.data_list) IN
    [author EXCEPT !.stat =
        IF @.data_list[len] = date
        THEN OverwriteLastDay(@, changes, insertions, deletions)
        ELSE PushDay(@, date, changes, insertions, deletions)]

KnownAuthor(author, date, changes, insertions, deletions) ==
    LET counted == [author.stat EXCEPT !.commit_count = @ + 1]
        len == Len(counted.data_list)
    IN  [author EXCEPT !.stat =
            IF counted.data_list[len] = date
            THEN OverwriteLastDay(counted, changes, insertions, deletions)
            ELSE PushDay(counted, date, changes, insertions, deletions)]

\* lines 584-600: the first commit of an author
NewAuthor(name, email, date, changes, insertions, deletions) ==
    [author |-> [name |-> name, email |-> email],
     stat |-> PushDay([EmptyStat EXCEPT !.commit_count = 1],
                      date, changes, insertions, deletions)]

\* lines 604-618: the branch total
TotalStat(total, date, changes, insertions, deletions) ==
    LET counted == [total EXCEPT !.commit_count = @ + 1]
        len == Len(counted.data_list)
    IN  IF len > 0 /\ counted.data_list[len] = date
        THEN OverwriteLastDay(counted, changes, insertions, deletions)
        ELSE [PushDay(counted, date, changes, insertions, deletions)
                EXCEPT !.data_list = Append(@, date)]

\* HashMap::insert / get_mut on authors_stat
MapPut(map, key, value) ==
    [x \in (DOMAIN map) \cup {key} |-> IF x = key THEN value ELSE map[x]]

\* variant: the map is keyed by the author's email
AuthorKeyEmail(commit) == commit.email

\* lines 562 and 566: the key of authors_stat is the author's name
AuthorKey(commit) == commit.name

\* lines 552-618: one iteration of the loop over the commit records.
\* A record is its header fields (name, email, date) and the lines after
\* the header line.
ContribStep(authors, total, commit) ==
    IF 1 + Len(commit.rest) # 2
    THEN [tag |-> "Skip", authors |-> authors, total |-> total]
    ELSE
        LET parsed == log_shortstat_parse(commit.rest[1]) IN
        IF parsed.tag # "Ok"
        THEN [tag |-> parsed.tag, authors |-> authors, total |-> total]
        ELSE
            LET changes == parsed.changes
                insertions == parsed.insertions
                deletions == parsed.deletions
                name == AuthorKey(commit)
                entry ==
                    IF name \in DOMAIN authors
                    THEN KnownAuthor(authors[name], commit.date,
                                     changes, insertions, deletions)
                    ELSE NewAuthor(name, commit.email, commit.date,
                                   changes, insertions, deletions)
            IN  IF \/ name \in DOMAIN authors
                      /\ KnownAuthorPanics(authors[name], commit.date)
                   \/ TotalPanics(total, commit.date)
                THEN [tag |-> "Panic", authors |-> authors, total |-> total]
                ELSE
                [tag |-> "Ok",
                 authors |-> MapPut(authors, name, entry),
                 total |-> TotalStat(total, commit.date,
                                     changes, insertions, deletions)]

\* the commit records a log may hold: a header and the lines after it
EmptyMap == [x \in {} |-> EmptyStat]

Identities == {<<"ann", "ann@x">>, <<"ann", "ann@y">>, <<"bob", "bob@x">>}
\* author timestamps (%at): two on the first day, one on the next day
Dates == {0, 60, SecsPerDay}
StatLines == {<<Blank>> \o ShortstatLine(1, 1, Absent),
              <<Blank>> \o ShortstatLine(2, 1, 2)}

Record(id, date, rest) ==
    [name |-> id[1], email |-> id[2], date |-> date, rest |-> rest]

\* a commit followed by its shortstat line
StatRecords == {Record(id, d, <<l>>) : id \in Identities, d \in Dates, l \in StatLines}
\* records the loop skips: a commit git prints no shortstat line for (a
\* merge, an empty commit), and a record of three lines (a blank line
\* between the header and the shortstat line)
BareRecords ==
    {Record(<<"ann", "ann@x">>, 60, <<>>),
     Record(<<"bob", "bob@x">>, 0, <<<<>>, <<Blank>> \o ShortstatLine(1, 1, Absent)>>)}
\* a commit whose second line is not a shortstat line
OddRecords == {Record(<<"bob", "bob@x">>, 60, <<<<Junk>>>>)}

CommitRecords == StatRecords \cup BareRecords \cup OddRecords

\* ------------------------------------------------------------- the scenarios
NoResult == [tag |-> "None", changes |-> 0, insertions |-> 0, deletions |-> 0]
NoCall == [fn |-> "none", tag |-> "None", addition |-> 0, deletion |-> 0]

ShortIdle ==
    /\ status = <<>>
    /\ sres = NoResult
    /\ scall = NoCall
    /\ spc = "idle"

ContribIdle ==
    /\ commits = <<>>
    /\ authors_stat = EmptyMap
    /\ total_stat = EmptyStat
    /\ cpc = "idle"

LogIdle ==
    /\ placeholders = <<>>
    /\ values = <<>>
    /\ stdout = <<>>
    /\ exit_success = TRUE
    /\ records = <<>>
    /\ res = <<>>
    /\ lpc = "idle"

TreeIdle ==
    /\ file_info_list = <<>>
    /\ file_list = <<>>
    /\ tpc = "idle"

StatusIdle ==
    /\ status_line = <<>>
    /\ file_status = <<>>
    /\ fpc = "idle"

BinIdle ==
    /\ content = <<>>
    /\ binary = FALSE
    /\ bpc = "idle"

RemoteIdle ==
    /\ remote_lines = <<>>
    /\ remotes = <<>>
    /\ remotes_again = <<>>
    /\ rpc = "idle"

BranchIdle ==
    /\ branchs = <<>>
    /\ subcalls = <<>>
    /\ infos = <<>>
    /\ ret = <<>>
    /\ gpc = "idle"

LaterIdle == TreeIdle /\ StatusIdle /\ BinIdle /\ RemoteIdle /\ BranchIdle

\* ---- the shortstat parser and the operations that call it on one text
ShortInit ==
    /\ status \in ShortstatTexts
    /\ sres = NoResult
    /\ scall = NoCall
    /\ spc = "start"
    /\ ContribIdle
    /\ LogIdle
    /\ LaterIdle

\* line 509: log_shortstat_parse(status)
ShortstatParse ==
    /\ spc = "start"
    /\ sres' = log_shortstat_parse(status)
    /\ spc' = "parsed"
    /\ UNCHANGED <<status, scall, contribVars, logVars, laterVars>>

\* lines 853-866 and 1123-1136: Ok(output) => match log_shortstat_parse(&stdout)
\* variant: a parse error is returned as zero counts
StatOfStdoutZeros(fn, text) ==
    LET parsed == log_shortstat_parse(text) IN
    IF parsed.tag = "Panic"
    THEN [fn |-> fn, tag |-> "Panic", addition |-> 0, deletion |-> 0]
    ELSE [fn |-> fn, tag |-> "Ok", addition |-> parsed.insertions,
          deletion |-> parsed.deletions]

StatOfStdout(fn, text) ==
    LET parsed == log_shortstat_parse(text) IN
    IF parsed.tag = "Ok"
    THEN [fn |-> fn, tag |-> "Ok", addition |-> parsed.insertions,
          deletion |-> parsed.deletions]
    ELSE [fn |-> fn, tag |-> parsed.tag, addition |-> 0, deletion |-> 0]

\* lines 849-873: get_file_modify_stat_between_commit, git printing status
GetFileModifyStatBetweenCommit ==
    /\ spc = "start"
    /\ \E spawned \in BOOLEAN :
          scall' = IF spawned
                   THEN StatOfStdout("get_file_modify_stat_between_commit", status)
                   ELSE [fn |-> "get_file_modify_stat_between_commit",
                         tag |-> "Err", addition |-> 0, deletion |-> 0]
    /\ spc' = "called"
    /\ UNCHANGED <<status, sres, contribVars, logVars, laterVars>>

\* lines 1119-1145: get_diff_file_stat_between_commit, git printing status
GetDiffFileStatBetweenCommit ==
    /\ spc = "start"
    /\ \E spawned \in BOOLEAN :
          scall' = IF spawned
                   THEN StatOfStdout("get_diff_file_stat_between_commit", status)
                   ELSE [fn |-> "get_diff_file_stat_between_commit",
                         tag |-> "Err", addition |-> 0, deletion |-> 0]
    /\ spc' = "called"
    /\ UNCHANGED <<status, sres, contribVars, logVars, laterVars>>

\* lines 533-632: get_contribute_stat on a log of one commit whose shortstat
\* line is status
ContribOutcome(step) ==
    [fn |-> "get_contribute_stat",
     tag |-> step.tag,
     addition |-> IF step.tag = "Ok" THEN step.total.insertion[1] ELSE 0,
     deletion |-> IF step.tag = "Ok" THEN step.total.deletions[1] ELSE 0]

GetContributeStatOneCommit ==
    /\ spc = "start"
    /\ scall' = ContribOutcome(
                   ContribStep(EmptyMap, EmptyStat,
                               Record(<<"ann", "ann@x">>, 0, <<status>>)))
    /\ spc' = "called"
    /\ UNCHANGED <<status, sres, contribVars, logVars, laterVars>>


\* ---- get_contribute_stat, one commit record at a time
ContribInit ==
    /\ commits = <<>>
    /\ authors_stat = EmptyMap
    /\ total_stat = EmptyStat
    /\ cpc = "start"
    /\ ShortIdle
    /\ LogIdle
    /\ LaterIdle

\* lines 534-539: the two git invocations; either may fail to run
ContribStart ==
    /\ cpc = "start"
    /\ \E spawned \in BOOLEAN : cpc' = IF spawned THEN "loop" ELSE "err"
    /\ UNCHANGED <<commits, authors_stat, total_stat, shortVars, logVars, laterVars>>

\* lines 551-619: the loop body on the next record of stdout
ContribCommit ==
    /\ cpc = "loop"
    /\ Len(commits) < MaxCommits
    /\ \E c \in CommitRecords :
          LET step == ContribStep(authors_stat, total_stat, c) IN
          /\ commits' = Append(commits, c)
          /\ authors_stat' = step.authors
          /\ total_stat' = step.total
          /\ cpc' = CASE step.tag \in {"Ok", "Skip"} -> "loop"
                      [] step.tag = "Err" -> "err"
                      [] OTHER -> "panic"
    /\ UNCHANGED <<shortVars, logVars, laterVars>>

\* lines 620-624: stdout is exhausted, the result is returned
ContribReturn ==
    /\ cpc = "loop"
    /\ cpc' = "done"
    /\ UNCHANGED <<commits, authors_stat, total_stat, shortVars, logVars, laterVars>>

ContribNext ==
    \/ ContribStart
    \/ ContribCommit
    \/ ContribReturn

SpecContrib == ContribInit /\ [][ContribNext]_vars

\* ---------------------------------------------------- get_commit_log_format
\* str::trim: white space at either end goes
IsSpace(tok) == tok \in {Newline, Blank, Tab}

RECURSIVE TrimStart(_)
TrimStart(text) ==
    IF Len(text) > 0 /\ IsSpace(text[1]) THEN TrimStart(Tail(text)) ELSE text

RECURSIVE TrimEnd(_)
TrimEnd(text) ==
    IF Len(text) > 0 /\ IsSpace(text[Len(text)])
    THEN TrimEnd(SubSeq(text, 1, Len(text) - 1))
    ELSE text

Trim(text) == TrimEnd(TrimStart(text))

\* str::trim_end_matches(pat): every trailing occurrence of pat goes
RECURSIVE TrimEndMatches(_, _)
TrimEndMatches(text, pat) ==
    IF Len(text) > 0 /\ text[Len(text)] = pat
    THEN TrimEndMatches(SubSeq(text, 1, Len(text) - 1), pat)
    ELSE text

\* str::split(pat): the pieces between the occurrences of pat, empty pieces
\* included; a text without pat is one piece
RECURSIVE Split(_, _)
Split(text, pat) ==
    IF \E j \in 1..Len(text) : text[j] = pat
    THEN LET j == CHOOSE x \in 1..Len(text) :
                      /\ text[x] = pat
                      /\ \A y \in 1..(x - 1) : text[y] # pat
         IN  <<SubSeq(text, 1, j - 1)>> \o Split(SubSeq(text, j + 1, Len(text)), pat)
    ELSE <<text>>

\* lines 224-251: the placeholder -> key table
get_format_key_map ==
    "%H" :> "hashL" @@ "%h" :> "hashS" @@ "%T" :> "treeL" @@ "%t" :> "treeS" @@
    "%P" :> "parentHashL" @@ "%p" :> "parentHashS" @@
    "%an" :> "authorName" @@ "%ae" :> "authorEmail" @@ "%ad" :> "date" @@
    "%ar" :> "dateRelative" @@ "%at" :> "dateTimeStamp" @@
    "%cn" :> "committerName" @@ "%ce" :> "committerEmail" @@
    "%cd" :> "committerDate" @@ "%cr" :> "committerDateRelative" @@
    "%ct" :> "committerDateTimeStamp" @@ "%cs" :> "committerDateYMD" @@
    "%d" :> "refs" @@ "%D" :> "refsComma" @@ "%s" :> "message" @@
    "%b" :> "body" @@ "%B" :> "bodyNoTrailingSlash" @@ "%N" :> "notes"

\* lines 258-286: the placeholder -> key table of the documentation comment
documented_keys ==
    "%H" :> "hashL" @@ "%h" :> "hashS" @@ "%T" :> "treeL" @@ "%t" :> "treeS" @@
    "%P" :> "parentHashL" @@ "%p" :> "parentHashS" @@
    "%an" :> "authorName" @@ "%ae" :> "authorEmail" @@ "%ad" :> "date" @@
    "%ar" :> "dateRelative" @@ "%at" :> "dateTimeStamp" @@
    "%ai" :> "dateIso" @@ "%as" :> "dateYMD" @@ "%ah" :> "dateHuman" @@
    "%cn" :> "committerName" @@ "%ce" :> "committerEmail" @@
    "%cd" :> "committerDate" @@ "%cr" :> "committerDateRelative" @@
    "%ct" :> "committerDateTimeStamp" @@ "%cs" :> "committerDateYMD" @@
    "%ch" :> "committerDateHuman" @@
    "%d" :> "refs" @@ "%D" :> "refsComma" @@ "%s" :> "message" @@
    "%b" :> "body" @@ "%B" :> "bodyNoTrailingSlash" @@ "%N" :> "notes"

\* line 300: the records of stdout
SplitRecords(text) ==
    Split(TrimEndMatches(Trim(text), COMMIT_INETRVAL), COMMIT_INETRVAL)

\* line 301: the fields of a record
SplitFields(line) == Split(line, PARAM_INTERVAL)

\* lines 303-308 panic at the first i where datas[i] is past the end of
\* datas or key_map has no entry for placeholders[i]
RecordPanics(keys, datas) ==
    \E i \in 1..Len(keys) :
        \/ i > Len(datas)
        \/ keys[i] \notin DOMAIN get_format_key_map

\* lines 302-308: the map of one record; a later insert under the same key
\* replaces the earlier one
RecordMap(keys, datas) ==
    [name \in {get_format_key_map[keys[i]] : i \in 1..Len(keys)} |->
        LET last == CHOOSE i \in 1..Len(keys) :
                        /\ get_format_key_map[keys[i]] = name
                        /\ \A j \in (i + 1)..Len(keys) :
                              get_format_key_map[keys[j]] # name
        IN  Trim(datas[last])]

\* the placeholders a caller may ask for: two of the table, and one the
\* documentation lists that the table lacks
PlaceholderKeys == {"%H", "%an", "%ai"}
FieldValue == W("value")
LogAlphabet == {FieldValue, PARAM_INTERVAL, COMMIT_INETRVAL, Newline}

LogInit ==
    /\ placeholders \in SeqsUpTo(PlaceholderKeys, MaxPlaceholders)
    /\ values = <<>>
    /\ stdout \in SeqsUpTo(LogAlphabet, MaxLogToks)
    \* a git log that fails (an unknown branch, no repository) prints its
    \* message to stderr and nothing to stdout
    /\ exit_success \in IF stdout = <<>> THEN BOOLEAN ELSE {TRUE}
    /\ records = <<>>
    /\ res = <<>>
    /\ lpc = "start"
    /\ ShortIdle
    /\ ContribIdle
    /\ LaterIdle

\* lines 295-300: git log runs; when it could be spawned its stdout is split
\* (lines 17-26: get_command_output is Err only when the process could not
\* be started; output.status is read nowhere)
LogFormatRun ==
    /\ lpc = "start"
    /\ \E spawned \in BOOLEAN :
          IF spawned
          THEN /\ records' = SplitRecords(stdout)
               /\ lpc' = "loop"
          ELSE /\ records' = records
               /\ lpc' = "err"
    /\ UNCHANGED <<placeholders, values, stdout, exit_success, res, shortVars,
                   contribVars, laterVars>>

\* lines 300-310: the loop body on the next record
LogFormatRecord ==
    /\ lpc = "loop"
    /\ Len(res) < Len(records)
    /\ LET datas == SplitFields(records[Len(res) + 1]) IN
       IF RecordPanics(placeholders, datas)
       THEN /\ lpc' = "panic"
            /\ res' = res
       ELSE /\ lpc' = "loop"
            /\ res' = Append(res, RecordMap(placeholders, datas))
    /\ UNCHANGED <<placeholders, values, stdout, exit_success, records, shortVars,
                   contribVars, laterVars>>

\* line 311: Ok(res)
LogFormatReturn ==
    /\ lpc = "loop"
    /\ Len(res) = Len(records)
    /\ lpc' = "done"
    /\ UNCHANGED <<placeholders, values, stdout, exit_success, records, res,
                   shortVars, contribVars, laterVars>>

LogNext ==
    \/ LogFormatRun
    \/ LogFormatRecord
    \/ LogFormatReturn

SpecLogFormat == LogInit /\ [][LogNext]_vars

\* ---- the round trip through git log
\* the pieces of texts with sep between each two
RECURSIVE Join(_, _)
Join(texts, sep) ==
    IF Len(texts) = 0 THEN <<>>
    ELSE IF Len(texts) = 1 THEN texts[1]
    ELSE texts[1] \o sep \o Join(Tail(texts), sep)

\* lines 289-293: the format is the placeholders with PARAM_INTERVAL between
\* them and COMMIT_INETRVAL at the end; git log prints it once per commit,
\* each placeholder replaced by the commit's value, and (format: being a
\* separator format) a line feed between two commits
Render(commitValues) ==
    Join([j \in 1..Len(commitValues) |->
             Join(commitValues[j], <<PARAM_INTERVAL>>) \o <<COMMIT_INETRVAL>>],
         <<Newline>>)

\* values git may print for a placeholder: none holds a sentinel
ValueTexts == {<<>>, <<FieldValue>>, <<W("other")>>, <<FieldValue, Newline>>}

RoundTripInit ==
    /\ placeholders \in SeqsUpTo(PlaceholderKeys, MaxPlaceholders)
    /\ values \in SeqsUpTo([1..Len(placeholders) -> ValueTexts], MaxRecords)
    /\ stdout = Render(values)
    /\ exit_success = TRUE
    /\ records = <<>>
    /\ res = <<>>
    /\ lpc = "start"
    /\ ShortIdle
    /\ ContribIdle
    /\ LaterIdle

SpecRoundTrip == RoundTripInit /\ [][LogNext]_vars

\* ------------------------------- diff_file_context, the Modified branch
\* the runs between the blanks of one token, as str::split(" ") cuts it
TokenWords(tok) ==
    CASE tok = Blank -> <<<<>>, <<>>>>
      [] tok.k \in FileChangedKinds -> <<<<>>, <<tok>>, <<W("changed")>>>>
      [] tok.k \in InsertionKinds \cup DeletionKinds -> <<<<>>, <<tok>>>>
      [] tok = Junk -> <<<<W("no")>>, <<W("match")>>, <<W("text")>>>>
      [] OTHER -> <<<<tok>>>>

\* str::split(" ") of a piece: a word is what stands between two blanks
RECURSIVE SplitBlank(_)
SplitBlank(piece) ==
    IF Len(piece) = 0 THEN <<<<>>>>
    ELSE LET head == SplitBlank(SubSeq(piece, 1, Len(piece) - 1))
             parts == TokenWords(piece[Len(piece)])
             n == Len(head)
         IN  SubSeq(head, 1, n - 1) \o <<head[n] \o parts[1]>> \o Tail(parts)

\* line 996: stdout.trim().split(", ").  trim takes the blank of a final
\* ", " away, and the "," left over is no separator any more
CommaPieces(text) ==
    LET trimmed == Trim(text)
        n == Len(trimmed)
    IN  IF n > 0 /\ trimmed[n] = Comma
        THEN LET pieces == Split(SubSeq(trimmed, 1, n - 1), Comma)
                 m == Len(pieces)
             IN  [pieces EXCEPT ![m] = Append(@, W(","))]
        ELSE Split(trimmed, Comma)

\* str::starts_with("insertion") of a word
StartsWithInsertion(word) == Len(word) > 0 /\ word[1].k \in InsertionKinds

\* str::parse::<i32>() of a word: Ok for a run of digits within i32
RECURSIVE DigitsValue(_)
DigitsValue(word) ==
    IF Len(word) = 1 THEN word[1].v
    ELSE 10 * DigitsValue(SubSeq(word, 1, Len(word) - 1)) + word[Len(word)].v

ParsesAsI32(word) ==
    /\ Len(word) > 0
    /\ \A j \in 1..Len(word) : word[j].k = "num"
    /\ ~ParseOverflows(DigitsValue(word))

DiffStat(tag, addition, deletion) ==
    [fn |-> "diff_file_context", tag |-> tag, addition |-> addition,
     deletion |-> deletion]

\* lines 996-1010: the counts read off the text of git diff --shortstat.
\* lines[1] and change_info1[1] are indexed before any length is looked at,
\* and every parse is unwrapped
DiffShortstat(text) ==
    LET lines == CommaPieces(text) IN
    IF Len(lines) < 2 THEN DiffStat("Panic", 0, 0)
    ELSE
        LET change_info1 == SplitBlank(lines[2]) IN
        IF Len(change_info1) < 2 THEN DiffStat("Panic", 0, 0)
        ELSE IF Len(lines) > 2
        THEN IF StartsWithInsertion(change_info1[2])
             THEN LET change_info2 == SplitBlank(lines[3]) IN
                  IF ParsesAsI32(change_info1[1]) /\ ParsesAsI32(change_info2[1])
                  THEN DiffStat("Ok", DigitsValue(change_info1[1]),
                                DigitsValue(change_info2[1]))
                  ELSE DiffStat("Panic", 0, 0)
             ELSE DiffStat("Ok", 0, 0)
        ELSE IF ~ParsesAsI32(change_info1[1]) THEN DiffStat("Panic", 0, 0)
        ELSE IF StartsWithInsertion(change_info1[2])
        THEN DiffStat("Ok", DigitsValue(change_info1[1]), 0)
        ELSE DiffStat("Ok", 0, DigitsValue(change_info1[1]))

\* lines 988-1053: the Modified branch of diff_file_context, git diff
\* --shortstat printing status; the two git cat-file calls follow the
\* parsing, and each of the three calls may fail to start
DiffFileContextModified ==
    /\ spc = "start"
    /\ \E spawned, spawned1, spawned2 \in BOOLEAN :
          scall' = IF ~spawned THEN DiffStat("Err", 0, 0)
                   ELSE IF DiffShortstat(status).tag = "Panic" THEN DiffShortstat(status)
                   ELSE IF ~spawned1 \/ ~spawned2 THEN DiffStat("Err", 0, 0)
                   ELSE DiffShortstat(status)
    /\ spc' = "called"
    /\ UNCHANGED <<status, sres, contribVars, logVars, laterVars>>

ShortNext ==
    \/ ShortstatParse
    \/ GetFileModifyStatBetweenCommit
    \/ GetDiffFileStatBetweenCommit
    \/ GetContributeStatOneCommit
    \/ DiffFileContextModified

SpecShortstat == ShortInit /\ [][ShortNext]_vars

\* ---------------------------------------------------- file_info_list_to_tree
Slash == W("/")

\* lines 650 and 698: object_mode.starts_with("040000")
IsDirMode(object_mode) == Len(object_mode) > 0 /\ object_mode[1] = W("040000")

\* variant: every node takes the object fields of the record
RepoFileInfoAlways(name, dir, is_dir, is_last, info) ==
    [name |-> name,
     dir |-> dir,
     object_mode |-> info.object_mode,
     object_type |-> info.object_type,
     object_name |-> info.object_name,
     object_size |-> info.object_size,
     is_dir |-> is_dir,
     children |-> <<>>]

\* lines 653-662 and 699-708: the node made for one segment of a path
RepoFileInfo(name, dir, is_dir, is_last, info) ==
    [name |-> name,
     dir |-> dir,
     object_mode |-> IF is_last THEN info.object_mode ELSE <<>>,
     object_type |-> IF is_last THEN info.object_type ELSE <<>>,
     object_name |-> IF is_last THEN info.object_name ELSE <<>>,
     object_size |-> IF is_last THEN info.object_size ELSE <<>>,
     is_dir |-> is_dir,
     children |-> <<>>]

\* the search finds nothing: every segment makes a new node
position_none(list, name) == {}

\* the search takes a node of the name whether or not it is a directory
position_any(list, name) == {k \in 1..Len(list) : list[k].name = name}

\* line 642: the places of list where a directory of that name is;
\* iter().position() takes the first
position(list, name) ==
    {k \in 1..Len(list) : list[k].name = name /\ list[k].is_dir}

\* lines 641-671: the loop from segment i on, tmp_file_list being list
RECURSIVE insert_file_to_tree(_, _, _, _)
insert_file_to_tree(list, info, file_tree, i) ==
    IF i > Len(file_tree) THEN list
    ELSE LET found == position(list, file_tree[i]) IN
         IF found # {}
         THEN LET index == CHOOSE k \in found : \A l \in found : k <= l IN
              [list EXCEPT ![index].children =
                               insert_file_to_tree(@, info, file_tree, i + 1)]
         ELSE LET is_last == i = Len(file_tree)
                  is_dir == IsDirMode(info.object_mode) \/ ~is_last
                  dir == IF i # 1
                         THEN Join(SubSeq(file_tree, 1, i - 1), <<Slash>>)
                         ELSE <<W("./")>>
                  file == RepoFileInfo(file_tree[i], dir, is_dir, is_last, info)
              IN  IF is_dir
                  THEN Append(list, [file EXCEPT !.children =
                           insert_file_to_tree(<<>>, info, file_tree, i + 1)])
                  ELSE insert_file_to_tree(Append(list, file), info, file_tree, i + 1)

\* lines 682-686: the five fields of a line
FileInfo(file_info) ==
    [object_mode |-> file_info[1],
     object_type |-> file_info[2],
     object_size |-> Trim(file_info[3]),
     object_name |-> file_info[4],
     object_path |-> file_info[5]]

\* single-segment nodes go to the front of the list
FileInfoLineFront(list, line) ==
    LET file_info == Split(line, PARAM_INTERVAL) IN
    IF Len(file_info) # 5 THEN list
    ELSE LET info == FileInfo(file_info)
             file_tree == Split(info.object_path, Slash)
         IN  IF Len(file_tree) > 1
             THEN insert_file_to_tree(list, info, file_tree, 1)
             ELSE <<RepoFileInfo(info.object_path, <<W("./")>>,
                                 IsDirMode(info.object_mode), TRUE, info)>> \o list

\* lines 679-711: the loop body of file_info_list_to_tree on one line
FileInfoLine(list, line) ==
    LET file_info == Split(line, PARAM_INTERVAL) IN
    IF Len(file_info) # 5 THEN list
    ELSE LET info == FileInfo(file_info)
             file_tree == Split(info.object_path, Slash)
         IN  IF Len(file_tree) > 1
             THEN insert_file_to_tree(list, info, file_tree, 1)
             ELSE Append(list, RepoFileInfo(info.object_path, <<W("./")>>,
                                            IsDirMode(info.object_mode), TRUE, info))

\* line 721: one line of git ls-tree in the requested format, the path
\* spelled from its segment names; the size is padded with blanks
LsTreeLine(mode, type, size, hash, names) ==
    <<W(mode), PARAM_INTERVAL, W(type), PARAM_INTERVAL, Blank, W(size),
      PARAM_INTERVAL, W(hash), PARAM_INTERVAL>>
        \o Join([i \in 1..Len(names) |-> <<W(names[i])>>], <<Slash>>)

\* lines 726-727: the lines a listing may hold: files (two objects, five
\* paths), directory objects, and the empty line an empty listing is split
\* into
FileInfoLines ==
    LET paths == {<<"x.txt">>, <<"a">>, <<"a", "b">>,
                  <<"a", "b", "c">>, <<"a", "b", "d">>}
        objects == {<<"10", "h1">>, <<"5", "h2">>}
    IN  {LsTreeLine("100644", "blob", o[1], o[2], p) : o \in objects, p \in paths}
          \cup {LsTreeLine("040000", "tree", "-", "h3", p) : p \in {<<"a">>, <<"a", "b">>}}
          \cup {<<>>}

TreeInit ==
    /\ file_info_list = <<>>
    /\ file_list = <<>>
    /\ tpc = "loop"
    /\ ShortIdle /\ ContribIdle /\ LogIdle
    /\ StatusIdle /\ BinIdle /\ RemoteIdle /\ BranchIdle

\* lines 679-711: the next line of the listing
TreeLine ==
    /\ tpc = "loop"
    /\ Len(file_info_list) < MaxLines
    /\ \E line \in FileInfoLines :
          /\ file_info_list' = Append(file_info_list, line)
          /\ file_list' = FileInfoLine(file_list, line)
    /\ UNCHANGED <<tpc, parserVars, statusVars, binVars, remoteVars, branchVars>>

\* line 713: return file_list
TreeReturn ==
    /\ tpc = "loop"
    /\ tpc' = "done"
    /\ UNCHANGED <<file_info_list, file_list, parserVars, statusVars, binVars,
                   remoteVars, branchVars>>

TreeNext ==
    \/ TreeLine
    \/ TreeReturn

SpecTree == TreeInit /\ [][TreeNext]_vars

\* ------------- get_commit_file_status and get_files_status_between_commit
\* str::split_ascii_whitespace: the runs of text between white space
RECURSIVE SplitWhitespace(_)
SplitWhitespace(text) ==
    LET rest == TrimStart(text) IN
    IF Len(rest) = 0 THEN <<>>
    ELSE LET stops == {j \in 1..Len(rest) : IsSpace(rest[j])}
             n == IF stops = {} THEN Len(rest) + 1
                  ELSE CHOOSE j \in stops : \A l \in stops : j <= l
         IN  <<SubSeq(rest, 1, n - 1)>>
               \o SplitWhitespace(SubSeq(rest, n, Len(rest)))

\* lines 761-773 and 799-809: the status a flag letter stands for; the
\* letter is params[0][0..1], the first token of the flag column
parse_file_status(status_flag) ==
    CASE status_flag = W("A") -> "Added"
      [] status_flag = W("D") -> "Deleted"
      [] status_flag = W("M") -> "Modified"
      [] status_flag = W("R") -> "Renamed"
      [] status_flag = W("C") -> "Copied"
      [] status_flag = W("U") -> "Updated"
      [] OTHER -> "Unknown"

\* a copy is given a message as a rename is
HasMessageOrCopied(kind) == kind \in {"Renamed", "Copied"}

\* lines 765 and 893: the one status a message is made for
HasMessage(kind) == kind = "Renamed"

FileStatus(fn, path, kind, message) ==
    [fn |-> fn, tag |-> "Ok", path |-> path, status |-> kind, message |-> message]
FileStatusPanic(fn) ==
    [fn |-> fn, tag |-> "Panic", path |-> <<>>, status |-> "", message |-> <<>>]

\* lines 756-778: one line of git show --name-status; params[1] is read
\* first, then the first letter of params[0]
CommitFileStatus(line) ==
    LET fn == "get_commit_file_status"
        params == Split(line, Tab)
    IN  IF Len(params) < 2 \/ Len(params[1]) = 0 THEN FileStatusPanic(fn)
        ELSE LET kind == parse_file_status(params[1][1]) IN
             FileStatus(fn, params[2], kind,
                        IF HasMessage(kind) /\ Len(params) = 3
                        THEN params[2] \o <<W(" => ")>> \o params[3]
                        ELSE <<>>)

\* lines 889-904: one line of git diff --name-status; the first letter of
\* params[0] is read first, then params[1]
FilesStatusBetweenCommit(line) ==
    LET fn == "get_files_status_between_commit"
        params == SplitWhitespace(line)
    IN  IF Len(params) < 2 THEN FileStatusPanic(fn)
        ELSE LET kind == parse_file_status(params[1][1]) IN
             FileStatus(fn, params[2], kind,
                        IF HasMessage(kind) /\ Len(params) > 2
                        THEN params[2] \o <<W(" => ")>> \o params[3]
                        ELSE <<>>)

\* a line of a name-status listing: flag letter, score (empty for none),
\* and the path columns, with tabs between the columns
NameStatusLine(flag, score, paths) ==
    Join(<<<<W(flag)>> \o score>> \o paths, <<Tab>>)

\* lines 744 and 883: the lines git prints: one path for an added,
\* modified, deleted, type-changed, unmerged or unknown file, two for a
\* rename or a copy; a path may hold a blank.  An empty listing is split
\* into one empty line
StatusLines ==
    LET paths == {<<W("file.txt")>>, <<W("dir/new.txt")>>,
                  <<W("old"), Blank, W("file.txt")>>}
    IN  {NameStatusLine(f, <<>>, <<p>>) : f \in {"A", "M", "D", "T", "U", "X"}, p \in paths}
          \cup {NameStatusLine(f, <<W("100")>>, <<p, q>>) :
                    f \in {"R", "C"}, p \in paths, q \in paths}
          \cup {<<>>}

StatusInit ==
    /\ status_line \in StatusLines
    /\ file_status = <<>>
    /\ fpc = "start"
    /\ ShortIdle /\ ContribIdle /\ LogIdle
    /\ TreeIdle /\ BinIdle /\ RemoteIdle /\ BranchIdle

\* lines 755-778: the closure on one of lines[1..]; line 748 has filtered
\* the empty lines out
GetCommitFileStatus ==
    /\ fpc = "start"
    /\ status_line # <<>>
    /\ file_status' = CommitFileStatus(status_line)
    /\ fpc' = "done"
    /\ UNCHANGED <<status_line, parserVars, treeVars, binVars, remoteVars, branchVars>>

\* lines 889-904: the loop body on one line
GetFilesStatusBetweenCommit ==
    /\ fpc = "start"
    /\ file_status' = FilesStatusBetweenCommit(status_line)
    /\ fpc' = "done"
    /\ UNCHANGED <<status_line, parserVars, treeVars, binVars, remoteVars, branchVars>>

StatusNext ==
    \/ GetCommitFileStatus
    \/ GetFilesStatusBetweenCommit

SpecFileStatus == StatusInit /\ [][StatusNext]_vars

\* ------------------------------------------------------------------ is_binary
\* every byte of the content is looked at
is_binary_whole(text) == \E i \in 0..(text.len - 1) : i \in text.zeros

\* lines 1099-1107.  A content is [len |-> its length in bytes, zeros |->
\* the offsets of its zero bytes]; bytes().take(8000) yields the bytes at
\* offsets 0 .. min(len, 8000) - 1
is_binary(text) ==
    LET taken == IF text.len < ScanLimit THEN text.len ELSE ScanLimit IN
    \E i \in 0..(taken - 1) : i \in text.zeros

\* contents with lengths, and up to two zero bytes at offsets, at the start,
\* in the middle and around the scan limit
Contents ==
    LET marks == {0, 1, 500} \cup (ScanLimit - MaxSlack)..(ScanLimit + MaxSlack) IN
    {c \in [len : marks, zeros : {x \in SUBSET marks : Cardinality(x) <= 2}] :
        \A offset \in c.zeros : offset < c.len}

BinInit ==
    /\ content \in Contents
    /\ binary = FALSE
    /\ bpc = "start"
    /\ ShortIdle /\ ContribIdle /\ LogIdle
    /\ TreeIdle /\ StatusIdle /\ RemoteIdle /\ BranchIdle

\* lines 1099-1107: the call
IsBinary ==
    /\ bpc = "start"
    /\ binary' = is_binary(content)
    /\ bpc' = "done"
    /\ UNCHANGED <<content, parserVars, treeVars, statusVars, remoteVars, branchVars>>

SpecBinary == BinInit /\ [][IsBinary]_vars

\* ----------------------------------------------------------------- get_remote
\* str::trim_start_matches(pat): every leading occurrence of pat goes
RECURSIVE TrimStartMatches(_, _)
TrimStartMatches(text, pat) ==
    IF Len(text) > 0 /\ text[1] = pat THEN TrimStartMatches(Tail(text), pat) ELSE text

\* a later line of the same name replaces the url
RemoteLastUrl(map, parts) ==
    LET operate == TrimEndMatches(TrimStartMatches(parts[3], W("(")), W(")")) IN
    IF parts[1] \in DOMAIN map
    THEN [map EXCEPT ![parts[1]].url = parts[2],
                     ![parts[1]].operate = Append(@, operate)]
    ELSE MapPut(map, parts[1],
                [name |-> parts[1], url |-> parts[2], operate |-> <<operate>>])

\* lines 181-193: the map after a line of parts name, url, (operation)
Remote(map, parts) ==
    LET operate == TrimEndMatches(TrimStartMatches(parts[3], W("(")), W(")")) IN
    IF parts[1] \in DOMAIN map
    THEN [map EXCEPT ![parts[1]].operate = Append(@, operate)]
    ELSE MapPut(map, parts[1],
                [name |-> parts[1], url |-> parts[2], operate |-> <<operate>>])

\* line 173: the lines git remote -v prints, "name TAB url (operation)"; a
\* repository without remotes prints nothing, which splits into one empty
\* line
RemoteLines ==
    {<<W(n), Tab, W(u), Blank, W("("), W(o), W(")")>> :
        n \in {"origin", "upstream"}, u \in {"url1", "url2"}, o \in {"fetch", "push"}}
      \cup {<<>>}

RemoteInit ==
    /\ remote_lines = <<>>
    /\ remotes = <<>>
    /\ remotes_again = <<>>
    /\ rpc = "loop"
    /\ ShortIdle /\ ContribIdle /\ LogIdle
    /\ TreeIdle /\ StatusIdle /\ BinIdle /\ BranchIdle

\* lines 179-194: the loop body on the next line; parts[2] of a line of
\* fewer than three parts is an index out of bounds
GetRemoteLine ==
    /\ rpc = "loop"
    /\ Len(remote_lines) < MaxRemoteLines
    /\ \E line \in RemoteLines :
          LET parts == SplitWhitespace(Trim(line)) IN
          /\ remote_lines' = Append(remote_lines, line)
          /\ IF Len(parts) < 3
             THEN rpc' = "panic" /\ remotes' = remotes
             ELSE rpc' = "loop" /\ remotes' = Remote(remotes, parts)
    /\ UNCHANGED <<remotes_again, parserVars, treeVars, statusVars, binVars,
                   branchVars>>

\* line 195: Ok(remotes.into_values().collect()): the values of the map in
\* the arbitrary order a HashMap iterates in; remotes holds the Vec returned
GetRemoteReturn ==
    /\ rpc = "loop"
    /\ \E order \in [1..Cardinality(DOMAIN remotes) -> DOMAIN remotes] :
          /\ \A i, j \in DOMAIN order : i # j => order[i] # order[j]
          /\ remotes' = [i \in DOMAIN order |-> remotes[order[i]]]
    /\ rpc' = "done"
    /\ UNCHANGED <<remote_lines, remotes_again, parserVars, treeVars, statusVars,
                   binVars, branchVars>>

\* lines 179-194: the map the loop builds from all the lines
RECURSIVE RemotesOf(_)
RemotesOf(lines) ==
    IF Len(lines) = 0 THEN <<>>
    ELSE Remote(RemotesOf(SubSeq(lines, 1, Len(lines) - 1)),
                SplitWhitespace(Trim(lines[Len(lines)])))

\* lines 173-203 once more, on the same output: each call builds a HashMap
\* of its own, whose iteration order is its own
GetRemoteAgain ==
    /\ rpc = "done"
    /\ \E order \in [1..Cardinality(DOMAIN RemotesOf(remote_lines))
                       -> DOMAIN RemotesOf(remote_lines)] :
          /\ \A i, j \in DOMAIN order : i # j => order[i] # order[j]
          /\ remotes_again' = [i \in DOMAIN order |-> RemotesOf(remote_lines)[order[i]]]
    /\ rpc' = "again"
    /\ UNCHANGED <<remote_lines, remotes, parserVars, treeVars, statusVars,
                   binVars, branchVars>>

RemoteNext ==
    \/ GetRemoteLine
    \/ GetRemoteReturn
    \/ GetRemoteAgain

SpecRemote == RemoteInit /\ [][RemoteNext]_vars

\* ---------------------------------------------------- get_branchs_create_info
\* lines 386-412: get_branch_create_info for a branch; git log could be
\* spawned or not, and printed text.  keys[3] of fewer than four keys is an
\* index out of bounds
get_branch_create_info(branch, spawned, text) ==
    LET keys == Split(Trim(text), PARAM_INTERVAL)
        none == [tag |-> "Panic", name |-> branch, time |-> <<>>, hash |-> <<>>,
                 author |-> [name |-> <<>>, email |-> <<>>]]
    IN  IF ~spawned THEN [none EXCEPT !.tag = "Err"]
        ELSE IF Len(keys) < 4 THEN none
        ELSE [tag |-> "Ok", name |-> branch, time |-> keys[3], hash |-> keys[4],
              author |-> [name |-> keys[1], email |-> keys[2]]]

\* a branch whose sub-call failed is left out and the loop goes on
BranchInfoSkipErr(so_far, info) ==
    CASE info.tag = "Ok" -> [pc |-> "loop", res |-> Append(so_far, info), ret |-> <<>>]
      [] info.tag = "Err" -> [pc |-> "loop", res |-> so_far, ret |-> <<>>]
      [] OTHER -> [pc |-> "panic", res |-> so_far, ret |-> <<>>]

\* lines 427-434: what the loop does with the outcome of a sub-call: push
\* the info, or return the error (which carries no infos); a panic of the
\* sub-call unwinds through the loop
BranchInfo(so_far, info) ==
    CASE info.tag = "Ok" -> [pc |-> "loop", res |-> Append(so_far, info), ret |-> <<>>]
      [] info.tag = "Err" ->
            [pc |-> "err", res |-> so_far,
             ret |-> [tag |-> "Err", err |-> info.name, infos |-> <<>>]]
      [] OTHER -> [pc |-> "panic", res |-> so_far, ret |-> <<>>]

BranchInit ==
    /\ branchs \in SeqsUpTo({"main", "dev"}, MaxBranches)
    /\ subcalls = <<>>
    /\ infos = <<>>
    /\ ret = <<>>
    /\ gpc = "loop"
    /\ ShortIdle /\ ContribIdle /\ LogIdle
    /\ TreeIdle /\ StatusIdle /\ BinIdle /\ RemoteIdle

\* lines 425-435: the loop body on the next branch.  git log prints the
\* four fields of the root commit, or nothing (for a branch it does not
\* know)
BranchSubCall ==
    /\ gpc = "loop"
    /\ Len(subcalls) < Len(branchs)
    /\ \E spawned \in BOOLEAN :
       \E text \in {<<>>, <<W("ann"), PARAM_INTERVAL, W("ann@x"), PARAM_INTERVAL,
                           W("1700000000"), PARAM_INTERVAL, W("hash1"), Newline>>} :
          LET branch == branchs[Len(subcalls) + 1]
              next == BranchInfo(infos, get_branch_create_info(branch, spawned, text))
          IN  /\ subcalls' = Append(subcalls, branch)
              /\ infos' = next.res
              /\ ret' = next.ret
              /\ gpc' = next.pc
    /\ UNCHANGED <<branchs, parserVars, treeVars, statusVars, binVars, remoteVars>>

\* line 436: Ok(res)
BranchReturn ==
    /\ gpc = "loop"
    /\ Len(subcalls) = Len(branchs)
    /\ ret' = [tag |-> "Ok", err |-> "", infos |-> infos]
    /\ gpc' = "done"
    /\ UNCHANGED <<branchs, subcalls, infos, parserVars, treeVars, statusVars,
                   binVars, remoteVars>>

BranchNext ==
    \/ BranchSubCall
    \/ BranchReturn

SpecBranch == BranchInit /\ [][BranchNext]_vars

\* =================================================================== claims
\* ---- what the log consumed so far says, read off the records themselves
\* the records the loop does not skip: a header line and one more line
TwoLineRecords == SelectSeq(commits, LAMBDA c : Len(c.rest) = 1)
RecordsOf(name) == SelectSeq(TwoLineRecords, LAMBDA c : c.name = name)
DatesOf(name) == [j \in 1..Len(RecordsOf(name)) |-> RecordsOf(name)[j].date]
AllNames == {id[1] : id \in Identities}

DayOf(timestamp) == timestamp \div SecsPerDay
Running == cpc \in {"loop", "done"}

\* C1: after any prefix of the commit sequence the four parallel arrays of
\* the total accumulator (data_list, insertion, deletions, change_files)
\* have the same length.
C1_TotalArraysSameLength ==
    /\ Len(total_stat.data_list) = Len(total_stat.insertion)
    /\ Len(total_stat.data_list) = Len(total_stat.deletions)
    /\ Len(total_stat.data_list) = Len(total_stat.change_files)

\* C2: after any prefix of the commit sequence the four parallel arrays of
\* every per-author accumulator have the same length, and it is at least 1.
C2_AuthorArraysSameLength ==
    \A a \in DOMAIN authors_stat :
        LET st == authors_stat[a].stat IN
        /\ Len(st.data_list) >= 1
        /\ Len(st.insertion) = Len(st.data_list)
        /\ Len(st.deletions) = Len(st.data_list)
        /\ Len(st.change_files) = Len(st.data_list)

C2_Witness ==
    /\ Running
    /\ Cardinality(DOMAIN authors_stat) = 2
    /\ \E a \in DOMAIN authors_stat : Len(authors_stat[a].stat.data_list) = 2

\* every record consumed so far is one git prints: a commit with its
\* shortstat line, or a commit without one
WellFormedLog == \A j \in 1..Len(commits) : commits[j] \notin OddRecords

\* C3: two commits with the same date by the same author produce exactly
\* one day entry in that author's series, and the author's commit_count
\* increases by 2.
C3_SameDateOneEntry ==
    \A a \in AllNames :
        (/\ WellFormedLog
         /\ Len(RecordsOf(a)) = 2
         /\ DatesOf(a)[1] = DatesOf(a)[2])
        => /\ Running
           /\ a \in DOMAIN authors_stat
           /\ authors_stat[a].stat.data_list = <<DatesOf(a)[1]>>
           /\ authors_stat[a].stat.commit_count = 2

\* C4: series are bucketed by calendar day: commits of one author whose
\* timestamps differ but fall on the same calendar day are folded into one
\* day entry, so neighbouring entries of a series never lie on the same day.
C4_CalendarDayBuckets ==
    Running =>
        \A a \in DOMAIN authors_stat :
            LET dl == authors_stat[a].stat.data_list IN
            \A j \in 1..(Len(dl) - 1) : DayOf(dl[j]) # DayOf(dl[j + 1])

\* C5 as stated: when the whole log is processed the total commit_count is
\* the number of commits in the log output and each author's commit_count
\* is the number of those commits that carry the author's name.
C5_CountsEveryCommit ==
    cpc = "done" =>
        /\ total_stat.commit_count = Len(commits)
        /\ \A a \in DOMAIN authors_stat :
              authors_stat[a].stat.commit_count =
                  Len(SelectSeq(commits, LAMBDA c : c.name = a))

\* C5 as amended: the counts are plain running counts over the records
\* that consist of exactly two lines (header and shortstat line); records
\* of any other length are skipped and counted nowhere.  Commits sharing a
\* day are each counted.
C5_CountsTwoLineRecords ==
    cpc = "done" =>
        /\ total_stat.commit_count = Len(TwoLineRecords)
        /\ \A a \in AllNames :
              IF Len(RecordsOf(a)) = 0 THEN a \notin DOMAIN authors_stat
              ELSE /\ a \in DOMAIN authors_stat
                   /\ authors_stat[a].stat.commit_count = Len(RecordsOf(a))

C5_Witness ==
    /\ cpc = "done"
    /\ Len(commits) = 3
    /\ Len(TwoLineRecords) = 2
    /\ total_stat.commit_count = 2
    /\ Len(RecordsOf("ann")) = 2
    /\ DayOf(DatesOf("ann")[1]) = DayOf(DatesOf("ann")[2])
    /\ authors_stat["ann"].stat.commit_count = 2

\* ---- the shortstat parser
\* the count a clause spells when the line has the clause, 0 otherwise
OrZero(count) == IF count = Absent THEN 0 ELSE count

\* C6: for every line "N file(s) changed[, M insertion(s)(+)][, K
\* deletion(s)(-)]" log_shortstat_parse returns (N, M, K), with M = 0 when
\* the insertion clause is absent and K = 0 when the deletion clause is.
C6_ParsesEveryShape ==
    spc = "parsed" =>
        \A pre \in Prefixes, n \in 0..MaxNum, m \in OptCounts, k \in OptCounts :
            status = pre \o ShortstatLine(n, m, k)
                => sres = Ok3(n, OrZero(m), OrZero(k))

C6_Witness ==
    /\ spc = "parsed"
    /\ status = ShortstatLine(1, Absent, 2)
    /\ sres = Ok3(1, 0, 2)

\* C7 as stated: a line whose deletion clause precedes its insertion clause
\* yields the same triple as the line with the two clauses swapped.
C7_EitherOrder ==
    spc = "parsed" =>
        \A pre \in Prefixes, n \in 0..MaxNum, m \in 0..MaxNum, k \in 0..MaxNum :
            status = pre \o SwappedLine(n, m, k)
                => sres = log_shortstat_parse(pre \o ShortstatLine(n, m, k))

\* C7 as amended: the parser reads the clauses in one order only, insertion
\* before deletion; on a line whose deletion clause precedes its insertion
\* clause it returns the files and deletions counts and 0 insertions.
C7_DeletionFirstDropsInsertions ==
    spc = "parsed" =>
        \A pre \in Prefixes, n \in 0..MaxNum, m \in 0..MaxNum, k \in 0..MaxNum :
            status = pre \o SwappedLine(n, m, k) => sres = Ok3(n, 0, k)

C7_Witness ==
    /\ spc = "parsed"
    /\ status = <<Blank>> \o SwappedLine(2, 2, 1)
    /\ sres = Ok3(2, 0, 1)

\* the text holds an "N file(s) changed" clause somewhere
HasFilesChangedClause(text) ==
    \E j \in 1..(Len(text) - 1) :
        text[j].k = "num" /\ text[j + 1].k \in FileChangedKinds

\* the operations that call log_shortstat_parse (lines 557, 855, 1125)
ParseCallers ==
    {"get_contribute_stat", "get_file_modify_stat_between_commit",
     "get_diff_file_stat_between_commit"}

\* C8: log_shortstat_parse returns an error, not a triple of zeros, exactly
\* when the text holds no "N file(s) changed" clause, and every caller
\* (get_contribute_stat, get_file_modify_stat_between_commit,
\* get_diff_file_stat_between_commit) turns that error into a failed
\* operation, never into a result with zero counts.
C8_NoClauseIsAnError ==
    /\ spc = "parsed" => (sres.tag = "Err" <=> ~HasFilesChangedClause(status))
    /\ spc = "parsed" /\ HasFilesChangedClause(status) => sres.tag = "Ok"
    /\ spc = "called" /\ scall.fn \in ParseCallers /\ ~HasFilesChangedClause(status)
          => scall.tag = "Err"

C8_Witness ==
    /\ spc = "called"
    /\ scall.fn = "get_contribute_stat"
    /\ status = <<Junk>>
    /\ scall.tag = "Err"

\* ---- get_commit_log_format
\* the loop has taken up a record whose number of fields is not the number
\* of requested placeholders
MismatchedRecordSeen ==
    /\ lpc \in {"loop", "panic", "done"}
    /\ Len(placeholders) >= 1
    /\ \E j \in 1..Len(records) :
          /\ \/ j <= Len(res)
             \/ j = Len(res) + 1 /\ lpc = "panic"
          /\ Len(SplitFields(records[j])) # Len(placeholders)

\* C9: a record whose number of fields differs from the number of requested
\* placeholders (fewer or more) makes the operation return an error; it is
\* never silently truncated, padded, or turned into a crash.
C9_FieldCountMismatchIsAnError ==
    MismatchedRecordSeen => /\ lpc # "panic"
                            /\ lpc # "done"
                            /\ Len(res) < Len(records)

\* C10: requesting a placeholder that is not in the format-key table makes
\* get_commit_log_format return an error value to its caller; the process
\* is not aborted.
C10_UnknownPlaceholderIsAnError ==
    (\E i \in 1..Len(placeholders) : placeholders[i] \notin DOMAIN get_format_key_map)
        => lpc # "panic"

\* C11: every placeholder of the documentation table of get_commit_log_format
\* (%ai, %as, %ah and %ch among them) is accepted, and the value printed for
\* it comes back under the key the table lists for it: a record that has a
\* field for each placeholder is never refused, and each map pushed holds
\* the field of the placeholder under the documented key.
C11_DocumentedPlaceholdersAccepted ==
    (\A i \in 1..Len(placeholders) : placeholders[i] \in DOMAIN documented_keys)
        => /\ ~ /\ lpc = "panic"
                /\ Len(SplitFields(records[Len(res) + 1])) >= Len(placeholders)
           /\ \A j \in 1..Len(res) : \A i \in 1..Len(placeholders) :
                 (\A l \in (i + 1)..Len(placeholders) : placeholders[l] # placeholders[i])
                     => /\ documented_keys[placeholders[i]] \in DOMAIN res[j]
                        /\ res[j][documented_keys[placeholders[i]]]
                               = Trim(SplitFields(records[j])[i])

\* C12: delimiter round trip.  For any placeholders P (here: at least one,
\* all in the key table) and any values V, none holding a sentinel, the text
\* git log prints for the format built from P parses back to exactly V: the
\* call is not aborted, the result has one record per record of V, and
\* field i of record j is V[j][i].
C12_RoundTrip ==
    /\ Len(placeholders) >= 1
    /\ \A i \in 1..Len(placeholders) : placeholders[i] \in DOMAIN get_format_key_map
    => /\ lpc # "panic"
       /\ lpc = "done"
            => /\ Len(res) = Len(values)
               /\ \A j \in 1..Len(values) : \A i \in 1..Len(placeholders) :
                     res[j][get_format_key_map[placeholders[i]]] = values[j][i]

\* ---- file_info_list_to_tree
\* the lines consumed so far that have five fields, as records
FileRecords ==
    LET five == SelectSeq(file_info_list,
                          LAMBDA l : Len(Split(l, PARAM_INTERVAL)) = 5)
    IN  [j \in 1..Len(five) |-> FileInfo(Split(five[j], PARAM_INTERVAL))]

SegmentsOf(record) == Split(record.object_path, Slash)

\* every node of a tree, parents before children
RECURSIVE FlatNodes(_)
FlatNodes(list) ==
    IF Len(list) = 0 THEN <<>>
    ELSE <<list[1]>> \o FlatNodes(list[1].children) \o FlatNodes(Tail(list))

DirsNamed(list, name) == {k \in 1..Len(list) : list[k].name = name /\ list[k].is_dir}

\* the children list reached from list through the directories dirs, when
\* each step has exactly one directory of the name; the empty list otherwise
RECURSIVE ChildrenAt(_, _)
ChildrenAt(list, dirs) ==
    IF Len(dirs) = 0 THEN list
    ELSE LET d == DirsNamed(list, dirs[1]) IN
         IF Cardinality(d) # 1 THEN <<>>
         ELSE ChildrenAt(list[CHOOSE k \in d : TRUE].children, Tail(dirs))

\* the input is a listing of files, as git ls-tree -r prints it: no line
\* is a directory object, and no path is a directory of another path
ListingOfFiles ==
    LET recs == FileRecords
        paths == [j \in 1..Len(recs) |-> SegmentsOf(recs[j])]
    IN  /\ \A j \in 1..Len(recs) : ~IsDirMode(recs[j].object_mode)
        /\ \A j, k \in 1..Len(recs) :
              ~(Len(paths[j]) < Len(paths[k])
                  /\ SubSeq(paths[k], 1, Len(paths[j])) = paths[j])

\* C13: the tree builder collapses shared path prefixes.  For a listing of
\* files, every leading segment of a record's path is one directory node,
\* the only directory of that name in its parent's list, and under the
\* chain there is a leaf for the record that carries its mode, hash and
\* size; the tree holds as many leaves as there are records.
C13_SharedPrefixesCollapse ==
    ListingOfFiles =>
        LET recs == FileRecords IN
        /\ \A j \in 1..Len(recs) :
              LET record == recs[j]
                  segs == SegmentsOf(record)
                  siblings == ChildrenAt(file_list, SubSeq(segs, 1, Len(segs) - 1))
              IN  /\ \A i \in 1..(Len(segs) - 1) :
                        Cardinality(DirsNamed(ChildrenAt(file_list, SubSeq(segs, 1, i - 1)),
                                              segs[i])) = 1
                  /\ \E k \in 1..Len(siblings) :
                        /\ siblings[k].name = segs[Len(segs)]
                        /\ ~siblings[k].is_dir
                        /\ siblings[k].object_mode = record.object_mode
                        /\ siblings[k].object_name = record.object_name
                        /\ siblings[k].object_size = record.object_size
        /\ Len(SelectSeq(FlatNodes(file_list), LAMBDA n : ~n.is_dir)) = Len(recs)

\* a/b/c and a/b/d listed: one directory a, holding one directory b,
\* holding the two leaves
C13_Witness ==
    /\ tpc = "done"
    /\ file_info_list = <<LsTreeLine("100644", "blob", "10", "h1", <<"a", "b", "c">>),
                          LsTreeLine("100644", "blob", "5", "h2", <<"a", "b", "d">>)>>
    /\ Len(file_list) = 1
    /\ file_list[1].name = <<W("a")>> /\ file_list[1].is_dir
    /\ Len(file_list[1].children) = 1
    /\ file_list[1].children[1].name = <<W("b")>> /\ file_list[1].children[1].is_dir
    /\ LET leaves == file_list[1].children[1].children IN
          /\ Len(leaves) = 2
          /\ leaves[1].name = <<W("c")>> /\ leaves[1].object_name = <<W("h1")>>
          /\ leaves[1].object_size = <<W("10")>> /\ ~leaves[1].is_dir
          /\ leaves[2].name = <<W("d")>> /\ leaves[2].object_name = <<W("h2")>>
          /\ leaves[2].object_size = <<W("5")>> /\ ~leaves[2].is_dir

\* C14: after any sequence of insertions, every node of the tree whose
\* children list is non-empty has is_dir = TRUE.
C14_OnlyDirectoriesHaveChildren ==
    \A k \in 1..Len(FlatNodes(file_list)) :
        Len(FlatNodes(file_list)[k].children) > 0 => FlatNodes(file_list)[k].is_dir

\* a file a at the root, then a file a/b: the file a stays childless, b
\* goes under a new directory a
C14_Witness ==
    /\ Len(file_info_list) = 2
    /\ Len(file_list) = 2
    /\ ~file_list[1].is_dir /\ file_list[1].name = <<W("a")>>
    /\ file_list[2].is_dir /\ file_list[2].name = <<W("a")>>
    /\ Len(file_list[1].children) = 0
    /\ Len(file_list[2].children) = 1

\* old is what new was before insertions: each list of old is the head of
\* the list of new at the same place, node for node
RECURSIVE Extends(_, _)
Extends(old, new) ==
    /\ Len(old) <= Len(new)
    /\ \A k \in 1..Len(old) :
          /\ [new[k] EXCEPT !.children = <<>>] = [old[k] EXCEPT !.children = <<>>]
          /\ Extends(old[k].children, new[k].children)

\* a sequence without the later repetitions of its elements
RECURSIVE FirstSeen(_)
FirstSeen(seq) ==
    IF Len(seq) = 0 THEN <<>>
    ELSE LET front == FirstSeen(SubSeq(seq, 1, Len(seq) - 1))
             last == seq[Len(seq)]
         IN  IF \E k \in 1..Len(front) : front[k] = last THEN front
             ELSE Append(front, last)

\* the first segments of the paths of the five-field lines
FirstSegments(lines) ==
    LET five == SelectSeq(lines, LAMBDA l : Len(Split(l, PARAM_INTERVAL)) = 5)
    IN  [j \in 1..Len(five) |-> Split(Split(five[j], PARAM_INTERVAL)[5], Slash)[1]]

\* the names of the root list are the first segments of the lines, in the
\* order the input first shows them
RootInFirstSeenOrder(list, lines) ==
    FirstSeen([k \in 1..Len(list) |-> list[k].name]) = FirstSeen(FirstSegments(lines))

\* C15: the tree is in first-encountered insertion order.  An insertion
\* leaves every node that exists where it is, in every children list and in
\* the root list, and puts new nodes after them; the names of the root list
\* stay in the order in which the input first showed them.
C15_InsertionOrderKept ==
    [][/\ Extends(file_list, file_list')
       /\ RootInFirstSeenOrder(file_list', file_info_list')]_vars

\* x.txt, a/b/d, a/b/c in that order: the lists are not sorted by name
C15_Witness ==
    /\ tpc = "done"
    /\ Len(file_info_list) = 3
    /\ [k \in 1..Len(file_list) |-> file_list[k].name] = <<<<W("x.txt")>>, <<W("a")>>>>
    /\ Len(file_list[2].children) = 1
    /\ LET leaves == file_list[2].children[1].children IN
          [k \in 1..Len(leaves) |-> leaves[k].name] = <<<<W("d")>>, <<W("c")>>>>

\* ---- the file status parsers
\* the columns of the line, which tabs separate
Columns == Split(status_line, Tab)

\* C16: for a status line "<flag><score> TAB <path> [TAB <newPath>]" the
\* status is chosen by the first character of the flag column, and the
\* message is "<old> => <new>" for a Renamed line with two path columns
\* and empty for every status other than Renamed.
C16_StatusAndMessage ==
    fpc = "done" /\ status_line # <<>> =>
        /\ file_status.tag = "Ok"
        /\ file_status.status = parse_file_status(Columns[1][1])
        /\ file_status.message =
              IF file_status.status = "Renamed" /\ Len(Columns) = 3
              THEN Columns[2] \o <<W(" => ")>> \o Columns[3]
              ELSE <<>>

\* C17 as stated: a Copied line with two path columns gets the message
\* "<oldPath> => <newPath>", as a Renamed line does.
C17_CopiedGetsMessage ==
    fpc = "done" /\ Len(Columns) = 3 /\ Columns[1][1] = W("C") =>
        file_status.message = Columns[2] \o <<W(" => ")>> \o Columns[3]

\* C17 as the code has it: a Copied line with two path columns is given
\* the status Copied and an empty message by both parsers.
C17_CopiedHasNoMessage ==
    fpc = "done" /\ Len(Columns) = 3 /\ Columns[1][1] = W("C") =>
        /\ file_status.tag = "Ok"
        /\ file_status.status = "Copied"
        /\ file_status.message = <<>>

C17_Witness ==
    /\ fpc = "done"
    /\ status_line = NameStatusLine("C", <<W("100")>>, <<<<W("file.txt")>>, <<W("dir/new.txt")>>>>)
    /\ file_status.fn = "get_commit_file_status"
    /\ file_status.status = "Copied"
    /\ file_status.path = <<W("file.txt")>>
    /\ file_status.message = <<>>

\* C18: is_binary returns true if and only if at least one of the first
\* 8000 bytes of the content is a zero byte; a zero byte at offset 8000 or
\* later never makes content binary, and content without zero bytes is
\* never binary whatever its length.
C18_ZeroByteInFirst8000 ==
    bpc = "done" =>
        /\ binary <=> \E offset \in content.zeros : offset < 8000
        /\ (\A offset \in content.zeros : offset >= 8000) => ~binary
        /\ content.zeros = {} => ~binary

\* a content longer than 8000 bytes whose only zero byte is at offset 8000
C18_Witness ==
    /\ bpc = "done"
    /\ content.len > 8000
    /\ content.zeros = {8000}
    /\ ~binary

\* ---- get_remote
\* the lines consumed so far that name the remote
LinesNaming(name) == SelectSeq(remote_lines, LAMBDA l : l[1] = name)

\* C19: get_remote merges output lines by remote name.  The result holds
\* exactly one Remote per distinct name; its url is the url of the first
\* line naming it, and its operations are the operation tokens of all lines
\* naming it, in encounter order.
C19_MergedByName ==
    rpc = "done" =>
        LET names == {remote_lines[j][1] : j \in 1..Len(remote_lines)} IN
        /\ Len(remotes) = Cardinality(names)
        /\ \A n \in names :
              \E k \in 1..Len(remotes) :
                  /\ remotes[k].name = <<n>>
                  /\ remotes[k].url = <<LinesNaming(n)[1][3]>>
                  /\ remotes[k].operate =
                        [j \in 1..Len(LinesNaming(n)) |-> <<LinesNaming(n)[j][6]>>]

\* origin is named by two lines of different urls, with upstream between
C19_Witness ==
    /\ rpc = "done"
    /\ Len(remote_lines) = 3
    /\ remote_lines[1][1] = W("origin") /\ remote_lines[1][3] = W("url1")
    /\ remote_lines[2][1] = W("upstream")
    /\ remote_lines[3][1] = W("origin") /\ remote_lines[3][3] = W("url2")
    /\ \E k \in 1..Len(remotes) :
          /\ remotes[k].name = <<W("origin")>>
          /\ remotes[k].url = <<W("url1")>>
          /\ remotes[k].operate = <<<<W("fetch")>>, <<W("push")>>>>

\* ---- get_branchs_create_info
\* C20: get_branchs_create_info fails fast.  When the sub-call for a branch
\* returns an error, the operation returns that error and none of the infos
\* accumulated so far, the sub-calls issued are those for the branches up
\* to the failing one, and no step follows; when all sub-calls succeed the
\* result has one info per input branch, in input order.
C20_FailsFast ==
    /\ [](gpc = "err" =>
            /\ ret.tag = "Err"
            /\ ret.err = subcalls[Len(subcalls)]
            /\ ret.infos = <<>>
            /\ Len(subcalls) = Len(infos) + 1
            /\ subcalls = SubSeq(branchs, 1, Len(subcalls)))
    /\ [](gpc = "done" =>
            /\ ret.tag = "Ok"
            /\ Len(ret.infos) = Len(branchs)
            /\ \A i \in 1..Len(branchs) :
                  ret.infos[i].tag = "Ok" /\ ret.infos[i].name = branchs[i])
    /\ [][gpc # "err"]_vars

\* the second of three sub-calls fails: one info is dropped and the third
\* branch is never asked for
C20_Witness ==
    /\ gpc = "err"
    /\ Len(branchs) = 3
    /\ Len(subcalls) = 2
    /\ Len(infos) = 1
    /\ ret.infos = <<>>

\* C21: idempotence.  Running a parser twice on identical stdout yields
\* structurally equal results, the order of the list elements included;
\* here get_remote, whose second result is the first one.
C21_SameResultTwice ==
    rpc = "again" => remotes_again = remotes

\* C22: an operation returns an error when the external process fails to
\* start or exits with a non-zero status; it never parses the stdout of a
\* failed invocation into a successful result.  Here get_commit_log_format:
\* after a git log that exited with a failure the Ok branch is never taken.
C22_FailedExitIsAnError ==
    ~exit_success => lpc \notin {"loop", "done", "panic"}

\* ---- get_contribute_stat, step by step
\* new is old with the counts of its last day replaced by those of the
\* commit, every earlier entry and the days themselves as they were
LastDayReplaced(old, new, commit) ==
    LET n == Len(old.data_list)
        parsed == log_shortstat_parse(commit.rest[1])
    IN  /\ new.data_list = old.data_list
        /\ new.change_files = [old.change_files EXCEPT ![n] = parsed.changes]
        /\ new.insertion = [old.insertion EXCEPT ![n] = parsed.insertions]
        /\ new.deletions = [old.deletions EXCEPT ![n] = parsed.deletions]

\* the step takes up a record of two lines of an author who is in the map
\* and whose last recorded day is the record's date
SameDayStep(before, pc, after, commit) ==
    /\ pc = "loop"
    /\ Len(after) = Len(before) + 1
    /\ Len(commit.rest) = 1
    /\ commit.name \in DOMAIN authors_stat
    /\ LET days == authors_stat[commit.name].stat.data_list IN
          days[Len(days)] = commit.date

\* C23: the same-day policy is last-write-wins.  When a commit's date equals
\* the last recorded day of its author's accumulator, that day's
\* change_files, insertion and deletions are replaced by the commit's counts
\* (not summed), and all earlier day entries are left unchanged.
C23_SameDayLastWriteWins ==
    [][SameDayStep(commits, cpc', commits', commits'[Len(commits')]) =>
          LastDayReplaced(authors_stat[commits'[Len(commits')].name].stat,
                          authors_stat'[commits'[Len(commits')].name].stat,
                          commits'[Len(commits')])]_vars

\* ann, then bob on another day, then ann again on her day with other
\* counts: her one day holds the counts of her second commit
C23_Witness ==
    /\ cpc = "done"
    /\ Len(commits) = 3
    /\ commits[1].name = "ann" /\ commits[2].name = "bob" /\ commits[3].name = "ann"
    /\ commits[1].date = commits[3].date /\ commits[2].date # commits[1].date
    /\ commits[1].rest = <<<<Blank>> \o ShortstatLine(1, 1, Absent)>>
    /\ commits[3].rest = <<<<Blank>> \o ShortstatLine(2, 1, 2)>>
    /\ authors_stat["ann"].stat.data_list = <<commits[1].date>>
    /\ authors_stat["ann"].stat.change_files = <<2>>
    /\ authors_stat["ann"].stat.deletions = <<2>>

\* the total after a step that took up a commit of two lines: one new day
\* entry when the commit's date is not the last total day, the last entry
\* overwritten otherwise
TotalMirrorsAuthor(old, new, commit) ==
    IF Len(old.data_list) = 0 \/ old.data_list[Len(old.data_list)] # commit.date
    THEN new.data_list = Append(old.data_list, commit.date)
    ELSE LastDayReplaced(old, new, commit)

\* C24: the total accumulator mirrors the per-author logic on its own dates.
\* A commit appends exactly one new total day entry when its date differs
\* from the last total entry's date (or the total is empty) and otherwise
\* overwrites the last total entry, so the total days list holds each
\* distinct date once.
C24_TotalOneEntryPerDay ==
    [][cpc' = "loop" /\ Len(commits') = Len(commits) + 1
          /\ Len(commits'[Len(commits')].rest) = 1
          => TotalMirrorsAuthor(total_stat, total_stat', commits'[Len(commits')])]_vars

\* C25: per-author accumulators are keyed by author name only.  Commits of
\* one name and different emails are folded into one accumulator: the map
\* holds one entry per distinct name of the records taken up, which counts
\* all the records of that name and keeps the email of the first.
C25_KeyedByNameOnly ==
    Running =>
        /\ DOMAIN authors_stat = {TwoLineRecords[j].name : j \in 1..Len(TwoLineRecords)}
        /\ \A n \in DOMAIN authors_stat :
              /\ authors_stat[n].author.name = n
              /\ authors_stat[n].author.email = RecordsOf(n)[1].email
              /\ authors_stat[n].stat.commit_count = Len(RecordsOf(n))

\* ann@x and ann@y, on different days: one accumulator of two days
C25_Witness ==
    /\ cpc = "done"
    /\ Len(commits) = 2
    /\ commits[1].name = "ann" /\ commits[1].email = "ann@x"
    /\ commits[2].name = "ann" /\ commits[2].email = "ann@y"
    /\ DOMAIN authors_stat = {"ann"}
    /\ authors_stat["ann"].stat.commit_count = 2
    /\ Len(authors_stat["ann"].stat.data_list) = 2

\* ---- file_info_list_to_tree, the nodes
\* C26 as stated: every directory node (is_dir = TRUE) has empty
\* object_mode, object_type, object_name and object_size.
C26_DirectoriesCarryNoObject ==
    \A k \in 1..Len(FlatNodes(file_list)) :
        LET node == FlatNodes(file_list)[k] IN
        node.is_dir => /\ node.object_mode = <<>> /\ node.object_type = <<>>
                       /\ node.object_name = <<>> /\ node.object_size = <<>>

\* C26 as the code has it: a node either was made for a leading segment,
\* and then is a directory with the four object fields empty, or was made
\* at the final segment of a record's path, and then carries that record's
\* mode, type, hash and size and is a directory exactly when the mode is
\* that of a directory object.
C26_ObjectFieldsOfFinalSegment ==
    LET nodes == FlatNodes(file_list)
        recs == FileRecords
        Final(record) ==
            LET segs == SegmentsOf(record) IN
            <<segs[Len(segs)], record.object_mode, record.object_type,
              record.object_name, record.object_size>>
        finals == {Final(recs[j]) : j \in 1..Len(recs)}
    IN  \A k \in 1..Len(nodes) :
            \/ /\ nodes[k].is_dir
               /\ nodes[k].object_mode = <<>> /\ nodes[k].object_type = <<>>
               /\ nodes[k].object_name = <<>> /\ nodes[k].object_size = <<>>
            \/ /\ nodes[k].is_dir <=> IsDirMode(nodes[k].object_mode)
               /\ <<nodes[k].name, nodes[k].object_mode, nodes[k].object_type,
                    nodes[k].object_name, nodes[k].object_size>> \in finals

\* the directory object a/b listed alone: a is a directory without object
\* fields, b a directory with the fields of the record
C26_Witness ==
    /\ file_info_list = <<LsTreeLine("040000", "tree", "-", "h3", <<"a", "b">>)>>
    /\ Len(file_list) = 1
    /\ file_list[1].is_dir /\ file_list[1].object_mode = <<>>
    /\ Len(file_list[1].children) = 1
    /\ file_list[1].children[1].is_dir
    /\ file_list[1].children[1].object_mode = <<W("040000")>>
    /\ file_list[1].children[1].object_name = <<W("h3")>>

\* every children list of the tree, the root list included
ChildrenLists(list) ==
    {list} \cup {FlatNodes(list)[k].children : k \in 1..Len(FlatNodes(list))}

\* C27: after any sequence of insertions, no children list, the root list
\* included, holds two directory nodes of the same name.
C27_NoTwoDirectoriesOfOneName ==
    \A list \in ChildrenLists(file_list) :
        \A i, j \in 1..Len(list) :
            list[i].is_dir /\ list[j].is_dir /\ list[i].name = list[j].name => i = j

\* the children list reached from list through the first directory of
\* each name of dirs; the empty list when a step has no such directory
RECURSIVE DescendFirst(_, _)
DescendFirst(list, dirs) ==
    IF Len(dirs) = 0 THEN list
    ELSE LET d == DirsNamed(list, dirs[1]) IN
         IF d = {} THEN <<>>
         ELSE DescendFirst(list[CHOOSE k \in d : \A m \in d : k <= m].children,
                           Tail(dirs))

\* C28: no record is lost.  Every line of five fields has a node that
\* carries its object hash, named by the last segment of its path, in the
\* children list reached through the directories named by the segments
\* before it.
C28_NoRecordLost ==
    tpc = "done" =>
        \A j \in 1..Len(FileRecords) :
            LET record == FileRecords[j]
                segs == SegmentsOf(record)
                siblings == DescendFirst(file_list, SubSeq(segs, 1, Len(segs) - 1))
            IN  \E k \in 1..Len(siblings) :
                    /\ siblings[k].name = segs[Len(segs)]
                    /\ siblings[k].object_name = record.object_name

\* ---- get_files_status_between_commit on an empty listing
\* C29: when git diff --name-status prints nothing,
\* get_files_status_between_commit returns the empty list it started with:
\* it does not abort and holds no entry.  get_files_diff_context begins
\* with this call, and its result on the empty listing is the call's.
C29_EmptyListingGivesEmptyList ==
    fpc = "done" /\ status_line = <<>> => file_status = <<>>

\* ---- diff_file_context and log_shortstat_parse on the same text
\* C30: for every text log_shortstat_parse accepts, the parsing written
\* out in the Modified branch of diff_file_context computes the same
\* additions and deletions, and for a text log_shortstat_parse rejects it
\* does not abort.
C30_HandParsingAgrees ==
    spc = "called" /\ scall.fn = "diff_file_context" /\ scall.tag # "Err" =>
        LET parsed == log_shortstat_parse(status) IN
        /\ parsed.tag = "Ok" =>
              /\ scall.tag = "Ok"
              /\ scall.addition = parsed.insertions
              /\ scall.deletion = parsed.deletions
        /\ parsed.tag = "Err" => scall.tag # "Panic"

====
